---- MODULE Spec2Model ----
(***************************************************************************)
(* Block-based file system simulation: DiskManager (bitmap + block image)  *)
(* and FileManager (flat path-keyed FileTable).                            *)
(*                                                                         *)
(* Strings are modelled as sequences of one-character strings, file bytes  *)
(* as sequences of small integers (0 is the NUL byte).  A C++ exception is *)
(* modelled by the "status" field of an operation's result; "ok" means the *)
(* call returned normally, "crash" that the process died.                  *)
(***************************************************************************)
EXTENDS Integers, Sequences, FiniteSets, TLC

\* Capacity handed to the DiskManager constructor (256 in main and the tests),
\* scaled down.
numBlocks == 3
\* Bytes per block (4096 in disk_manager.h), scaled down.
BLOCK_SIZE == 2
\* MAX_BLOCKS is the same number as the capacity everywhere in the repository.
MAX_BLOCKS == numBlocks
\* Number of FileManager calls explored in one behaviour.
MaxOps == 3

\* the width of size_t, scaled down, and the number of its values
WordBits == 4
SizeMod == 2 ^ WordBits

NUL == 0

VARIABLES
    fileTable,  \* FileTable::entries : key |-> FileEntry
    bitmap,     \* Bitmap::bitmap : block index |-> TRUE (free) / FALSE (occupied)
    disk,       \* the disk image : block index |-> BLOCK_SIZE bytes
    crashed,    \* the process has died (undefined behaviour ended in a crash)
    last,       \* the last call: operation, arguments, outcome
    pre,        \* fileTable, bitmap and disk as they were before the last call
    nOps,       \* number of calls made so far
    cin,        \* standard input: the lines not read yet and the stream state
    commandLine, \* startCLI's commandLine: the line read last, as its words
    pc          \* startCLI: "off" (not called), "getline", "dispatch", "returned"

vars == <<fileTable, bitmap, disk, crashed, last, pre, nOps, cin, commandLine, pc>>

-----------------------------------------------------------------------------
\* Sequence helpers

\* the scan taken from the top: the highest element
Min_highest(S) == CHOOSE x \in S : \A y \in S : x >= y

Min(S) == CHOOSE x \in S : \A y \in S : x <= y

\* A statement sequence "v = <call>; <rest using v>": the call is made once and
\* the rest works on its result.
Bind(v, rest(_)) == CHOOSE y \in {rest(x) : x \in {v}} : TRUE

\* std::string::find(prefix) == 0
startsWith(name, prefix) ==
    /\ Len(prefix) <= Len(name)
    /\ SubSeq(name, 1, Len(prefix)) = prefix

\* std::string::find_last_of(c); 0 stands for npos, positions are 1-based
RECURSIVE findLastOf(_, _)
findLastOf(s, c) ==
    IF s = <<>> THEN 0
    ELSE IF s[Len(s)] = c THEN Len(s)
    ELSE findLastOf(SubSeq(s, 1, Len(s) - 1), c)

\* std::string::resize(n) on a byte string: truncate, or pad with NUL
resize(data, n) ==
    [i \in 1..n |-> IF i <= Len(data) THEN data[i] ELSE NUL]

\* data.find_last_not_of('\0') followed by resize / clear
RECURSIVE trimTrailingNul(_)
trimTrailingNul(data) ==
    IF data = <<>> THEN <<>>
    ELSE IF data[Len(data)] = NUL
         THEN trimTrailingNul(SubSeq(data, 1, Len(data) - 1))
         ELSE data

-----------------------------------------------------------------------------
\* Path handling

Dot == <<".">>
DotDot == <<".", ".">>
Root == <<"/">>

\* The characters accepted by the regular expression ^[a-zA-Z0-9_./-]+$
\* (those of them the model's paths use).
ValidChars == {"a", "b", "c", ".", "/"}

\* a name check that accepts every string
isValidName_any(name) == TRUE

isValidName(name) ==
    /\ name # <<>>
    /\ \A i \in 1..Len(name) : name[i] \in ValidChars

RECURSIVE tokenizeRest(_, _, _)
tokenizeRest(rest, token, tokens) ==
    IF rest = <<>>
    THEN (IF token = <<>> THEN tokens ELSE Append(tokens, token))
    ELSE IF Head(rest) = "/"
         THEN tokenizeRest(Tail(rest), <<>>,
                           IF token = <<>> THEN tokens ELSE Append(tokens, token))
         ELSE tokenizeRest(Tail(rest), Append(token, Head(rest)), tokens)

tokenizePath(path) == tokenizeRest(path, <<>>, <<>>)

RECURSIVE resolveTokens(_, _)
resolveTokens(tokens, resolved) ==
    IF tokens = <<>> THEN resolved
    ELSE LET token == Head(tokens) IN
         IF token = DotDot /\ resolved # <<>>
         THEN resolveTokens(Tail(tokens), SubSeq(resolved, 1, Len(resolved) - 1))
         ELSE IF token # Dot /\ token # DotDot
              THEN resolveTokens(Tail(tokens), Append(resolved, token))
              ELSE resolveTokens(Tail(tokens), resolved)

\* a join that puts the separator between the parts only
RECURSIVE joinParts_between(_)
joinParts_between(parts) ==
    IF parts = <<>> THEN <<>>
    ELSE IF Len(parts) = 1 THEN Head(parts)
    ELSE Head(parts) \o <<"/">> \o joinParts_between(Tail(parts))

RECURSIVE joinParts(_)
joinParts(parts) ==
    IF parts = <<>> THEN <<>>
    ELSE Head(parts) \o <<"/">> \o joinParts(Tail(parts))

resolvePath(path) ==
    IF path = Root THEN Root
    ELSE LET resolvedPath == <<"/">> \o joinParts(resolveTokens(tokenizePath(path), <<>>))
         IN  SubSeq(resolvedPath, 1, Len(resolvedPath) - 1)

-----------------------------------------------------------------------------
\* FileEntry and FileTable

FileEntry(name, type, size, blocks) ==
    [name |-> name, type |-> type, size |-> size, blockIndices |-> blocks]

\* the null pointer returned by getEntry / findEntry
NoEntry == FileEntry(<<>>, "None", 0, <<>>)

removeEntry(table, name) ==
    [k \in DOMAIN table \ {name} |-> table[k]]

getEntry(table, name) ==
    IF name \in DOMAIN table THEN table[name] ELSE NoEntry

findEntry(table, path) == getEntry(table, resolvePath(path))

-----------------------------------------------------------------------------
\* The state an operation works on and the result it gives back

State(t, b, d) == [fileTable |-> t, bitmap |-> b, disk |-> d]

Ok(s) == [s |-> s, status |-> "ok"]
Err(s, e) == [s |-> s, status |-> e]

ZeroBlock == [i \in 1..BLOCK_SIZE |-> NUL]

\* FileTable::addEntry throws when the key is present
addEntry(s, entry) ==
    IF entry.name \in DOMAIN s.fileTable THEN Err(s, "EntryExists")
    ELSE Ok([s EXCEPT !.fileTable =
                [k \in DOMAIN s.fileTable \cup {entry.name} |->
                    IF k = entry.name THEN entry ELSE s.fileTable[k]]])

-----------------------------------------------------------------------------
\* DiskManager

allocateBlock(s) ==
    LET free == {i \in 0..(numBlocks - 1) : s.bitmap[i]} IN
    IF free = {}
    THEN [s |-> s, status |-> "NoFreeBlocks", blockIndex |-> 0]
    ELSE [s |-> [s EXCEPT !.bitmap[Min(free)] = FALSE], status |-> "ok",
          blockIndex |-> Min(free)]

\* a write of the payload bytes only, the rest of the block left as it was
writeBlock_patch(s, blockIndex, data) ==
    IF Len(data) > BLOCK_SIZE THEN Err(s, "PayloadTooLarge")
    ELSE IF blockIndex >= numBlocks THEN Err(s, "OutOfRange")
    ELSE Ok([s EXCEPT !.disk[blockIndex] =
                          [k \in 1..BLOCK_SIZE |->
                              IF k <= Len(data) THEN data[k] ELSE @[k]],
                      !.bitmap[blockIndex] = FALSE])

\* a write without the payload size check
writeBlock_nosize(s, blockIndex, data) ==
    IF blockIndex >= numBlocks THEN Err(s, "OutOfRange")
    ELSE Ok([s EXCEPT !.disk[blockIndex] = resize(data, BLOCK_SIZE),
                      !.bitmap[blockIndex] = FALSE])

writeBlock(s, blockIndex, data) ==
    IF Len(data) > BLOCK_SIZE THEN Err(s, "PayloadTooLarge")
    ELSE IF blockIndex >= numBlocks THEN Err(s, "OutOfRange")
    ELSE Ok([s EXCEPT !.disk[blockIndex] = resize(data, BLOCK_SIZE),
                      !.bitmap[blockIndex] = FALSE])

readBlock(s, blockIndex) ==
    IF blockIndex >= numBlocks THEN [status |-> "OutOfRange", data |-> <<>>]
    ELSE IF s.bitmap[blockIndex] THEN [status |-> "BlockFree", data |-> <<>>]
    ELSE [status |-> "ok", data |-> trimTrailingNul(s.disk[blockIndex])]

\* a delete that zeroes the block and leaves its bitmap bit occupied
deleteBlock_keep(s, blockIndex) ==
    IF blockIndex >= numBlocks THEN Err(s, "OutOfRange")
    ELSE IF s.bitmap[blockIndex] THEN Err(s, "BlockAlreadyFree")
    ELSE Ok([s EXCEPT !.disk[blockIndex] = ZeroBlock])

deleteBlock(s, blockIndex) ==
    IF blockIndex >= numBlocks THEN Err(s, "OutOfRange")
    ELSE IF s.bitmap[blockIndex] THEN Err(s, "BlockAlreadyFree")
    ELSE Ok([s EXCEPT !.disk[blockIndex] = ZeroBlock,
                      !.bitmap[blockIndex] = TRUE])

setBlockFree(s, blockIndex) ==
    IF blockIndex >= numBlocks THEN Err(s, "OutOfRange")
    ELSE Ok([s EXCEPT !.bitmap[blockIndex] = TRUE])

-----------------------------------------------------------------------------
\* FileManager

\* a block count that rounds down
blocksFor_floor(size) == size \div BLOCK_SIZE

\* (size + BLOCK_SIZE - 1) / BLOCK_SIZE in size_t arithmetic: the sum is taken
\* modulo 2^WordBits
blocksFor(size) == ((size + BLOCK_SIZE - 1) % SizeMod) \div BLOCK_SIZE

initializeFileSystem(s) ==
    IF findEntry(s.fileTable, Root) = NoEntry
    THEN Ok(addEntry(s, FileEntry(Root, "Directory", 0, <<>>)).s)
    ELSE Ok(s)

RECURSIVE readBlocks(_, _, _)
readBlocks(s, blocks, data) ==
    IF blocks = <<>> THEN [status |-> "ok", data |-> data]
    ELSE LET r == readBlock(s, Head(blocks)) IN
         IF r.status # "ok" THEN r
         ELSE readBlocks(s, Tail(blocks), data \o r.data)

readFile(s, path) ==
    LET entry == findEntry(s.fileTable, path) IN
    IF entry = NoEntry THEN [status |-> "NotFound", data |-> <<>>]
    ELSE IF entry.type # "File" THEN [status |-> "NotAFile", data |-> <<>>]
    ELSE LET r == readBlocks(s, entry.blockIndices, <<>>) IN
         IF r.status # "ok" THEN r
         ELSE [status |-> "ok", data |-> resize(r.data, entry.size)]

RECURSIVE ensureParentDirectories(_, _)
RECURSIVE createDirectory(_, _)
RECURSIVE ensureLoop(_, _, _, _)

\* the body of the for loop of ensureParentDirectories; i is 1-based
ensureLoop(s, tokens, i, currentPath) ==
    IF i > Len(tokens) - 1 THEN Ok(s)
    ELSE LET cur == currentPath \o tokens[i]
             entry == findEntry(s.fileTable, cur)
             r == IF entry = NoEntry THEN createDirectory(s, cur)
                  ELSE IF entry.type # "Directory" THEN Err(s, "PathConflict")
                  ELSE Ok(s)
         IN  IF r.status # "ok" THEN r
             ELSE ensureLoop(r.s, tokens, i + 1, cur \o <<"/">>)

\* With no token the bound tokens.size() - 1 wraps to SIZE_MAX and the first
\* iteration reads tokens[0] of an empty vector (a null std::string): the
\* process dies.
ensureParentDirectories(s, path) ==
    LET tokens == tokenizePath(path) IN
    IF tokens = <<>> THEN Err(s, "crash")
    ELSE ensureLoop(s, tokens, 1, <<"/">>)

createDirectory(s, path) ==
    IF ~isValidName(path) THEN Err(s, "InvalidName")
    ELSE LET resolvedPath == resolvePath(path)
             r == ensureParentDirectories(s, resolvedPath)
         IN  IF r.status # "ok" THEN r
             ELSE IF findEntry(r.s.fileTable, resolvedPath) # NoEntry
                  THEN Err(r.s, "AlreadyExists")
                  ELSE addEntry(r.s, FileEntry(resolvedPath, "Directory", 0, <<>>))

\* the allocation loop of createFile: nothing is released when allocateBlock throws
RECURSIVE allocateBlocks(_, _, _)
allocateBlocks(s, n, blocks) ==
    IF n = 0 THEN [s |-> s, status |-> "ok", blocks |-> blocks]
    ELSE LET r == allocateBlock(s) IN
         IF r.status # "ok" THEN [s |-> r.s, status |-> r.status, blocks |-> blocks]
         ELSE allocateBlocks(r.s, n - 1, Append(blocks, r.blockIndex))

createFile(s, path, size) ==
    IF ~isValidName(path) THEN Err(s, "InvalidName")
    ELSE LET resolvedPath == resolvePath(path)
             r == ensureParentDirectories(s, resolvedPath)
         IN  IF r.status # "ok" THEN r
             ELSE IF findEntry(r.s.fileTable, resolvedPath) # NoEntry
                  THEN Err(r.s, "AlreadyExists")
                  ELSE LET a == allocateBlocks(r.s, blocksFor(size), <<>>) IN
                       IF a.status # "ok" THEN Err(a.s, a.status)
                       ELSE addEntry(a.s, FileEntry(resolvedPath, "File", size, a.blocks))

RECURSIVE deleteBlocks(_, _)
deleteBlocks(s, blocks) ==
    IF blocks = <<>> THEN Ok(s)
    ELSE LET r == deleteBlock(s, Head(blocks)) IN
         IF r.status # "ok" THEN r
         ELSE deleteBlocks(r.s, Tail(blocks))

\* the entry is looked up under the resolved path and removed under the path
\* as given
deleteFile(s, path) ==
    LET entry == findEntry(s.fileTable, path) IN
    IF entry = NoEntry THEN Err(s, "NotFound")
    ELSE IF entry.type # "File" THEN Err(s, "NotAFile")
    ELSE LET r == deleteBlocks(s, entry.blockIndices) IN
         IF r.status # "ok" THEN r
         ELSE Ok([r.s EXCEPT !.fileTable = removeEntry(@, path)])

\* first loop of writeFile's try block: slot i (1-based) reuses the entry's
\* i-th block when it has one and takes a new block otherwise
RECURSIVE reuseOrAllocate(_, _, _, _, _)
reuseOrAllocate(s, entry, requiredBlocks, i, newBlocks) ==
    IF i > requiredBlocks THEN [s |-> s, status |-> "ok", blocks |-> newBlocks]
    ELSE IF i <= Len(entry.blockIndices)
         THEN reuseOrAllocate(s, entry, requiredBlocks, i + 1,
                              Append(newBlocks, entry.blockIndices[i]))
         ELSE LET r == allocateBlock(s) IN
              IF r.status # "ok"
              THEN [s |-> r.s, status |-> r.status, blocks |-> newBlocks]
              ELSE reuseOrAllocate(r.s, entry, requiredBlocks, i + 1,
                                   Append(newBlocks, r.blockIndex))

\* fileData.substr(i * BLOCK_SIZE, BLOCK_SIZE), i 0-based
chunk(fileData, i) ==
    SubSeq(fileData, i * BLOCK_SIZE + 1,
           IF (i + 1) * BLOCK_SIZE < Len(fileData) THEN (i + 1) * BLOCK_SIZE
           ELSE Len(fileData))

\* second loop: write the data block by block
RECURSIVE writeChunks(_, _, _, _)
writeChunks(s, newBlocks, fileData, i) ==
    IF i > Len(newBlocks) THEN Ok(s)
    ELSE LET r == writeBlock(s, newBlocks[i], chunk(fileData, i - 1)) IN
         IF r.status # "ok" THEN r
         ELSE writeChunks(r.s, newBlocks, fileData, i + 1)

\* third loop: release the blocks of the entry beyond requiredBlocks
RECURSIVE freeExtraBlocks(_, _, _)
freeExtraBlocks(s, entry, i) ==
    IF i > Len(entry.blockIndices) THEN Ok(s)
    ELSE LET r == setBlockFree(s, entry.blockIndices[i]) IN
         IF r.status # "ok" THEN r
         ELSE freeExtraBlocks(r.s, entry, i + 1)

\* the catch block: release newBlocks[i] for i >= entry->blockIndices.size()
RECURSIVE rollbackFrom(_, _, _)
rollbackFrom(s, newBlocks, i) ==
    IF i > Len(newBlocks) THEN s
    ELSE rollbackFrom(setBlockFree(s, newBlocks[i]).s, newBlocks, i + 1)

\* a catch block that rethrows without releasing anything
rollbackNewBlocks_none(s, entry, newBlocks) == s

rollbackNewBlocks(s, entry, newBlocks) ==
    rollbackFrom(s, newBlocks, Len(entry.blockIndices) + 1)

writeFile(s, path, data, append) ==
    LET entry == findEntry(s.fileTable, path) IN
    IF entry = NoEntry THEN Err(s, "NotFound")
    ELSE IF entry.type # "File" THEN Err(s, "NotAFile")
    ELSE
    LET old == IF append THEN readFile(s, path) ELSE [status |-> "ok", data |-> <<>>] IN
    IF old.status # "ok" THEN Err(s, old.status)
    ELSE
    LET fileData == old.data \o data
        newSize == Len(fileData)
        requiredBlocks == blocksFor(newSize)
    IN
    IF Len(fileData) > MAX_BLOCKS * BLOCK_SIZE THEN Err(s, "FileTooLarge")
    ELSE
    LET a == reuseOrAllocate(s, entry, requiredBlocks, 1, <<>>) IN
    IF a.status # "ok" THEN Err(rollbackNewBlocks(a.s, entry, a.blocks), a.status)
    ELSE
    LET w == writeChunks(a.s, a.blocks, fileData, 1) IN
    IF w.status # "ok" THEN Err(rollbackNewBlocks(w.s, entry, a.blocks), w.status)
    ELSE
    LET f == freeExtraBlocks(w.s, entry, requiredBlocks + 1) IN
    IF f.status # "ok" THEN Err(rollbackNewBlocks(f.s, entry, a.blocks), f.status)
    ELSE
    LET updatedEntry == [entry EXCEPT !.size = newSize, !.blockIndices = a.blocks]
        removed == [f.s EXCEPT !.fileTable = removeEntry(@, updatedEntry.name)]
    IN  addEntry(removed, updatedEntry)

\* a parent lookup that always finds the root directory entry
parentEntry_any(s, destResolved) == FileEntry(Root, "Directory", 0, <<>>)

\* the entry at resolvePath(destResolved.substr(0, destResolved.find_last_of('/')));
\* substr(0, npos) is the whole string
parentEntry(s, destResolved) ==
    LET slash == findLastOf(destResolved, "/")
        parentPath == resolvePath(IF slash = 0 THEN destResolved
                                  ELSE SubSeq(destResolved, 1, slash - 1))
    IN  findEntry(s.fileTable, parentPath)

\* copy to the destination, then drop the source entry from the table
moveFile(s, sourcePath, destinationPath) ==
    LET srcResolved == resolvePath(sourcePath)
        destResolved == resolvePath(destinationPath)
        sourceEntry == findEntry(s.fileTable, srcResolved)
    IN
    IF srcResolved = destResolved THEN Err(s, "SamePath")
    ELSE IF sourceEntry = NoEntry THEN Err(s, "NotFound")
    ELSE IF sourceEntry.type # "File" THEN Err(s, "NotAFile")
    ELSE IF parentEntry(s, destResolved) = NoEntry THEN Err(s, "NoParent")
    ELSE
    Bind(readFile(s, srcResolved), LAMBDA fileData :
    IF fileData.status # "ok" THEN Err(s, fileData.status)
    ELSE
    Bind(createFile(s, destResolved, sourceEntry.size), LAMBDA c :
    IF c.status # "ok" THEN c
    ELSE
    Bind(writeFile(c.s, destResolved, fileData.data, FALSE), LAMBDA w :
    IF w.status # "ok" THEN w
    ELSE Ok([w.s EXCEPT !.fileTable = removeEntry(@, srcResolved)]))))

\* deleteDirectory erases entries of the unordered_map it is iterating over:
\* after the first erase the iterator is invalid and advancing it is undefined
\* behaviour.  The outcomes modelled are: the loop goes on over the entries
\* still present, the loop ends as if the map were exhausted, or the process
\* dies.  The order of iteration is the map's (unspecified) hash order.  The
\* result is the set of possible outcomes.
RECURSIVE deleteDirectory(_, _, _)
RECURSIVE deleteDirectoryLoop(_, _, _, _)
deleteDirectoryLoop(s, path, recursive, erased) ==
    LET matching == {name \in DOMAIN s.fileTable :
                        startsWith(name, path) /\ name # path}
        done == Ok([s EXCEPT !.fileTable = removeEntry(@, path)])
        visit(name) ==
            LET rs == IF s.fileTable[name].type = "File"
                      THEN {deleteFile(s, name)}
                      ELSE deleteDirectory(s, name, TRUE)
            IN  UNION {IF r.status # "ok" THEN {r}
                       ELSE deleteDirectoryLoop(r.s, path, recursive, TRUE) : r \in rs}
    IN
    IF erased
    THEN {done, Err(s, "crash")} \cup UNION {visit(name) : name \in matching}
    ELSE IF matching = {} THEN {done}
    ELSE IF ~recursive THEN {Err(s, "DirectoryNotEmpty")}
    ELSE UNION {visit(name) : name \in matching}

deleteDirectory(s, path, recursive) ==
    LET entry == findEntry(s.fileTable, path) IN
    IF entry = NoEntry THEN {Err(s, "NotFound")}
    ELSE IF entry.type # "Directory" THEN {Err(s, "NotADirectory")}
    ELSE deleteDirectoryLoop(s, path, recursive, FALSE)

\* relativePath.substr(0, relativePath.find('/'))
RECURSIVE upToSlash(_)
upToSlash(relativePath) ==
    IF relativePath = <<>> \/ Head(relativePath) = "/" THEN <<>>
    ELSE <<Head(relativePath)>> \o upToSlash(Tail(relativePath))

\* The names are collected in the iteration order of the unordered_map, which
\* is unspecified; the result is kept as the set of names (the code adds a
\* name only once).  path.back() of an empty path is undefined behaviour.
listDirectory(s, path) ==
    LET entry == findEntry(s.fileTable, path) IN
    IF entry = NoEntry THEN [status |-> "NotFound", names |-> {}]
    ELSE IF entry.type # "Directory" THEN [status |-> "NotADirectory", names |-> {}]
    ELSE IF path = <<>> THEN [status |-> "crash", names |-> {}]
    ELSE
    LET basePath == IF path[Len(path)] = "/" THEN path ELSE path \o <<"/">>
        relativePaths ==
            {upToSlash(SubSeq(name, Len(basePath) + 1, Len(name))) :
                name \in {n \in DOMAIN s.fileTable :
                             startsWith(n, basePath) /\ n # path}}
    IN  [status |-> "ok", names |-> relativePaths \ {<<>>}]

\* moveDirectory: the children are visited in the order listDirectory gave
\* them (any order); the first exception ends the call with what was done so
\* far left in place.  The last statement is deleteFile(srcResolved).  The
\* result is the set of possible outcomes.
RECURSIVE moveDirectory(_, _, _)
RECURSIVE moveContents(_, _, _, _)
moveContents(s, srcResolved, destResolved, contents) ==
    IF contents = {} THEN {deleteFile(s, srcResolved)}
    ELSE UNION {
        LET srcItemPath == srcResolved \o <<"/">> \o item
            destItemPath == destResolved \o <<"/">> \o item
            entry == findEntry(s.fileTable, srcItemPath)
            rs == IF entry = NoEntry THEN {Ok(s)}
                  ELSE IF entry.type = "File"
                       THEN {moveFile(s, srcItemPath, destItemPath)}
                       ELSE moveDirectory(s, srcItemPath, destItemPath)
        IN  UNION {IF r.status # "ok" THEN {r}
                   ELSE moveContents(r.s, srcResolved, destResolved,
                                     contents \ {item}) : r \in rs}
        : item \in contents}

moveDirectory(s, sourcePath, destinationPath) ==
    LET srcResolved == resolvePath(sourcePath)
        destResolved == resolvePath(destinationPath)
        sourceEntry == findEntry(s.fileTable, srcResolved)
    IN
    IF srcResolved = destResolved THEN {Err(s, "SamePath")}
    ELSE IF startsWith(destinationPath, sourcePath) THEN {Err(s, "IntoItself")}
    ELSE IF sourceEntry = NoEntry THEN {Err(s, "NotFound")}
    ELSE IF sourceEntry.type # "Directory" THEN {Err(s, "NotADirectory")}
    ELSE
    Bind(addEntry(s, [sourceEntry EXCEPT !.name = destResolved]), LAMBDA a :
    IF a.status # "ok" THEN {a}
    ELSE
    Bind(listDirectory(a.s, srcResolved), LAMBDA contents :
    IF contents.status # "ok" THEN {Err(a.s, contents.status)}
    ELSE moveContents(a.s, srcResolved, destResolved, contents.names)))

\* renamePath copies *sourceEntry after the entry it points to has been erased
\* from the map (a read of freed memory): either the copy still sees the old
\* entry, or the process dies.  The result is the set of possible outcomes.
renamePath(s, sourcePath, newName) ==
    LET srcResolved == resolvePath(sourcePath)
        sourceEntry == findEntry(s.fileTable, srcResolved)
        slash == findLastOf(srcResolved, "/")
        parentPath == IF slash = 0 THEN srcResolved
                      ELSE SubSeq(srcResolved, 1, slash - 1)
        destResolved == parentPath \o <<"/">> \o newName
    IN
    IF sourceEntry = NoEntry THEN {Err(s, "NotFound")}
    ELSE IF findEntry(s.fileTable, destResolved) # NoEntry THEN {Err(s, "AlreadyExists")}
    ELSE LET removed == [s EXCEPT !.fileTable = removeEntry(@, srcResolved)]
         IN  {addEntry(removed, [sourceEntry EXCEPT !.name = destResolved]),
              Err(s, "crash")}


\* The snapshot written by FileManager::save followed by DiskManager::save:
\* the entries, one byte per bitmap bit (1 for a free block), and the bytes
\* readBlock returns for every occupied block.
save(s) ==
    [entries |-> s.fileTable,
     bitmapBytes |-> [i \in 0..(numBlocks - 1) |-> IF s.bitmap[i] THEN 1 ELSE 0],
     blocks |-> [i \in {j \in 0..(numBlocks - 1) : ~s.bitmap[j]} |->
                    readBlock(s, i).data]]

\* the entry loop of FileManager::load; addEntry throws on a key the table
\* already has, with the entries read before it (in the snapshot's order)
\* added
loadEntries(s, entries) ==
    LET clash == DOMAIN entries \cap DOMAIN s.fileTable
        merged(T) == [k \in DOMAIN s.fileTable \cup T |->
                         IF k \in T THEN entries[k] ELSE s.fileTable[k]]
    IN  IF clash = {}
        THEN {Ok([s EXCEPT !.fileTable = merged(DOMAIN entries)])}
        ELSE {Err([s EXCEPT !.fileTable = merged(T)], "EntryExists") :
                 T \in SUBSET (DOMAIN entries \ clash)}

\* a load that takes the table as the snapshot gave it
ensureRoot_skip(s) == s

\* "Ensure / exists and is a directory"
ensureRoot(s) ==
    LET rootEntry == getEntry(s.fileTable, Root) IN
    IF rootEntry = NoEntry \/ rootEntry.type # "Directory"
    THEN addEntry([s EXCEPT !.fileTable = removeEntry(@, Root)],
                  FileEntry(Root, "Directory", 0, <<>>)).s
    ELSE s

\* DiskManager::load: a bit is free when its byte is 1; every saved block is
\* written back with writeBlock
RECURSIVE loadBlocks(_, _, _)
loadBlocks(s, blocks, todo) ==
    IF todo = {} THEN Ok(s)
    ELSE LET blockIndex == Min(todo)
             r == writeBlock(s, blockIndex, blocks[blockIndex])
         IN  IF r.status # "ok" THEN r
             ELSE loadBlocks(r.s, blocks, todo \ {blockIndex})

diskLoad(s, snapshot) ==
    LET bitmapData == [i \in DOMAIN snapshot.bitmapBytes |->
                          snapshot.bitmapBytes[i] = 1]
    IN  loadBlocks([s EXCEPT !.bitmap = bitmapData], snapshot.blocks,
                   DOMAIN snapshot.blocks)

load(s, snapshot) ==
    UNION {IF r.status # "ok" THEN {r}
           ELSE {diskLoad(ensureRoot(r.s), snapshot)} :
           r \in loadEntries(s, snapshot.entries)}

-----------------------------------------------------------------------------
\* The calls explored

P_a == <<"/", "a">>
P_aSlash == <<"/", "a", "/">>
P_ab == <<"/", "a", "/", "b">>
P_ac == <<"/", "a", "/", "c">>
P_abDot == <<"/", "a", "/", "b", "/", ".">>

Paths == {Root, P_a, P_aSlash, P_ab, P_ac, P_abDot}

Sizes == {0, 1, (numBlocks - 1) * BLOCK_SIZE, numBlocks * BLOCK_SIZE + 1}

\* BLOCK_SIZE + 1 bytes, the last byte of the first block being NUL
NulMid == [i \in 1..(BLOCK_SIZE + 1) |-> IF i = BLOCK_SIZE THEN NUL ELSE 1]

Datas == {<<>>, <<1>>, NulMid}

Cur == State(fileTable, bitmap, disk)

Call(op, path, path2, size, data, flag) ==
    [op |-> op, path |-> path, path2 |-> path2, size |-> size, data |-> data,
     flag |-> flag, status |-> "ok", out |-> <<>>]

\* a call can be made: the process is alive and the behaviour not at its bound
Live == ~crashed /\ nOps < MaxOps

\* one call returns (or throws, or kills the process) with result r
Step(call, r) ==
    /\ nOps' = nOps + 1
    /\ pre' = Cur
    /\ last' = [call EXCEPT !.status = r.status]
    /\ IF r.status = "crash"
       THEN /\ crashed' = TRUE
            /\ UNCHANGED <<fileTable, bitmap, disk>>
       ELSE /\ crashed' = FALSE
            /\ fileTable' = r.s.fileTable
            /\ bitmap' = r.s.bitmap
            /\ disk' = r.s.disk
    /\ UNCHANGED <<cin, commandLine, pc>>

\* standard input holding the given lines; newline tells whether the last
\* line ends with a newline character
Stdin(lines, newline) == [lines |-> lines, newline |-> newline, good |-> TRUE]

Init ==
    /\ fileTable = <<>>
    /\ bitmap = [i \in 0..(numBlocks - 1) |-> TRUE]
    /\ disk = [i \in 0..(numBlocks - 1) |-> ZeroBlock]
    /\ crashed = FALSE
    /\ last = Call("none", <<>>, <<>>, 0, <<>>, FALSE)
    /\ pre = State(<<>>, [i \in 0..(numBlocks - 1) |-> TRUE],
                   [i \in 0..(numBlocks - 1) |-> ZeroBlock])
    /\ nOps = 0
    /\ cin = Stdin(<<>>, TRUE)
    /\ commandLine = <<>>
    /\ pc = "off"

InitializeFileSystem ==
    /\ Live
    /\ \E r \in {initializeFileSystem(Cur)} :
          Step(Call("initializeFileSystem", <<>>, <<>>, 0, <<>>, FALSE), r)

CreateFile ==
    /\ Live
    /\ \E p \in Paths, n \in Sizes :
          \E r \in {createFile(Cur, p, n)} :
             Step(Call("createFile", p, <<>>, n, <<>>, FALSE), r)

CreateDirectory ==
    /\ Live
    /\ \E p \in Paths :
          \E r \in {createDirectory(Cur, p)} :
             Step(Call("createDirectory", p, <<>>, 0, <<>>, FALSE), r)

DeleteFile ==
    /\ Live
    /\ \E p \in Paths :
          \E r \in {deleteFile(Cur, p)} :
             Step(Call("deleteFile", p, <<>>, 0, <<>>, FALSE), r)

DeleteDirectory ==
    /\ Live
    /\ \E p \in Paths, recursive \in BOOLEAN :
          \E r \in deleteDirectory(Cur, p, recursive) :
             Step(Call("deleteDirectory", p, <<>>, 0, <<>>, recursive), r)

WriteFile ==
    /\ Live
    /\ \E p \in Paths, d \in Datas, append \in BOOLEAN :
          \E r \in {writeFile(Cur, p, d, append)} :
             Step(Call("writeFile", p, <<>>, 0, d, append), r)

\* readFile changes nothing; the bytes it returns are kept in last.out
ReadFile ==
    /\ Live
    /\ \E p \in Paths :
          \E r \in {readFile(Cur, p)} :
             Step([Call("readFile", p, <<>>, 0, <<>>, FALSE) EXCEPT !.out = r.data],
                  [s |-> Cur, status |-> r.status])

MoveFile ==
    /\ Live
    /\ \E p \in Paths, q \in Paths :
          \E r \in {moveFile(Cur, p, q)} :
             Step(Call("moveFile", p, q, 0, <<>>, FALSE), r)

Next ==
    \/ InitializeFileSystem
    \/ CreateFile
    \/ CreateDirectory
    \/ DeleteFile
    \/ DeleteDirectory
    \/ WriteFile
    \/ ReadFile
    \/ MoveFile

Spec == Init /\ [][Next]_vars

-----------------------------------------------------------------------------
\* A second set of calls: directories, moves, listing, renaming and the
\* snapshot, over paths that include a sibling whose name extends a
\* directory's name (/ab beside /a) and an alias of a directory (/a/.).

P_aDot == <<"/", "a", "/", ".">>
P_ab2 == <<"/", "a", "b">>
P_b == <<"/", "b">>

NsPaths == {Root, P_a, P_aDot, P_ab2, P_ab, P_b}

NsSizes == {0, 1}

NewNames == {<<>>, <<"b">>}

\* a freshly constructed DiskManager and FileManager over the given image
Fresh(image) == State(<<>>, [i \in 0..(numBlocks - 1) |-> TRUE], image)

NsCreateFile ==
    /\ Live
    /\ \E p \in NsPaths, n \in NsSizes :
          \E r \in {createFile(Cur, p, n)} :
             Step(Call("createFile", p, <<>>, n, <<>>, FALSE), r)

NsCreateDirectory ==
    /\ Live
    /\ \E p \in NsPaths :
          \E r \in {createDirectory(Cur, p)} :
             Step(Call("createDirectory", p, <<>>, 0, <<>>, FALSE), r)

NsWriteFile ==
    /\ Live
    /\ \E p \in NsPaths :
          \E r \in {writeFile(Cur, p, <<1>>, FALSE)} :
             Step(Call("writeFile", p, <<>>, 0, <<1>>, FALSE), r)

NsDeleteDirectory ==
    /\ Live
    /\ \E p \in NsPaths, recursive \in BOOLEAN :
          \E r \in deleteDirectory(Cur, p, recursive) :
             Step(Call("deleteDirectory", p, <<>>, 0, <<>>, recursive), r)

NsMoveFile ==
    /\ Live
    /\ \E p \in NsPaths, q \in NsPaths :
          \E r \in {moveFile(Cur, p, q)} :
             Step(Call("moveFile", p, q, 0, <<>>, FALSE), r)

MoveDirectory ==
    /\ Live
    /\ \E p \in NsPaths, q \in NsPaths :
          \E r \in moveDirectory(Cur, p, q) :
             Step(Call("moveDirectory", p, q, 0, <<>>, FALSE), r)

RenamePath ==
    /\ Live
    /\ \E p \in NsPaths, newName \in NewNames :
          \E r \in renamePath(Cur, p, newName) :
             Step(Call("renamePath", p, newName, 0, <<>>, FALSE), r)

\* listDirectory changes nothing; the names it returns are kept in last.out
ListDirectory ==
    /\ Live
    /\ \E p \in NsPaths :
          \E r \in {listDirectory(Cur, p)} :
             Step([Call("listDirectory", p, <<>>, 0, <<>>, FALSE) EXCEPT !.out = r.names],
                  [s |-> Cur, status |-> r.status])

\* The manager is saved and the snapshot loaded into a freshly constructed
\* manager, over either the same disk image file or a new one.
SaveLoad ==
    /\ Live
    /\ \E image \in {disk, [i \in 0..(numBlocks - 1) |-> ZeroBlock]} :
          \E r \in load(Fresh(image), save(Cur)) :
             Step(Call("load", <<>>, <<>>, 0, <<>>, FALSE), r)

NextNs ==
    \/ InitializeFileSystem
    \/ NsCreateFile
    \/ NsCreateDirectory
    \/ NsWriteFile
    \/ NsDeleteDirectory
    \/ NsMoveFile
    \/ MoveDirectory
    \/ RenamePath
    \/ ListDirectory
    \/ SaveLoad

SpecNs == Init /\ [][NextNs]_vars

-----------------------------------------------------------------------------
\* A third set of calls: creation over paths three components deep, an empty
\* path and a path with a character the name check refuses, with renamePath
\* as the call that moves a directory entry away from above its children.

P_abc == <<"/", "a", "/", "b", "/", "c">>
P_aDollar == <<"/", "a", "/", "$">>

P_rootDot == <<"/", ".">>

CrPaths == {<<>>, Root, P_rootDot, P_a, P_ab, P_abc, P_aDollar}

CrCreateFile ==
    /\ Live
    /\ \E p \in CrPaths, n \in NsSizes :
          \E r \in {createFile(Cur, p, n)} :
             Step(Call("createFile", p, <<>>, n, <<>>, FALSE), r)

CrCreateDirectory ==
    /\ Live
    /\ \E p \in CrPaths :
          \E r \in {createDirectory(Cur, p)} :
             Step(Call("createDirectory", p, <<>>, 0, <<>>, FALSE), r)

CrRenamePath ==
    /\ Live
    /\ \E p \in CrPaths, newName \in NewNames :
          \E r \in renamePath(Cur, p, newName) :
             Step(Call("renamePath", p, newName, 0, <<>>, FALSE), r)

NextCreate ==
    \/ InitializeFileSystem
    \/ CrCreateFile
    \/ CrCreateDirectory
    \/ CrRenamePath

SpecCreate == Init /\ [][NextCreate]_vars

-----------------------------------------------------------------------------
\* The block store driven directly: DiskManager's public operations on a
\* store that no FileManager uses.

MaxDiskOps == 4

\* block indices, numBlocks being the first one out of range
BlockIndices == 0..numBlocks

FullBlock == [i \in 1..BLOCK_SIZE |-> 2]
TooLong == [i \in 1..(BLOCK_SIZE + 1) |-> 1]

\* a full block whose first byte is NUL
NulFirst == [i \in 1..BLOCK_SIZE |-> IF i = 1 THEN NUL ELSE 1]

BlockDatas == {<<>>, <<1>>, NulFirst, FullBlock, TooLong}

BlockCall(op, blockIndex, data) ==
    [op |-> op, blockIndex |-> blockIndex, data |-> data, status |-> "ok",
     out |-> <<>>]

DiskLive == ~crashed /\ nOps < MaxDiskOps

AllocateBlock ==
    /\ DiskLive
    /\ \E r \in {allocateBlock(Cur)} :
          Step(BlockCall("allocateBlock", r.blockIndex, <<>>), r)

WriteBlock ==
    /\ DiskLive
    /\ \E i \in BlockIndices, d \in BlockDatas :
          \E r \in {writeBlock(Cur, i, d)} :
             Step(BlockCall("writeBlock", i, d), r)

ReadBlock ==
    /\ DiskLive
    /\ \E i \in BlockIndices :
          \E r \in {readBlock(Cur, i)} :
             Step([BlockCall("readBlock", i, <<>>) EXCEPT !.out = r.data],
                  [s |-> Cur, status |-> r.status])

DeleteBlock ==
    /\ DiskLive
    /\ \E i \in BlockIndices :
          \E r \in {deleteBlock(Cur, i)} :
             Step(BlockCall("deleteBlock", i, <<>>), r)

SetBlockFree ==
    /\ DiskLive
    /\ \E i \in BlockIndices :
          \E r \in {setBlockFree(Cur, i)} :
             Step(BlockCall("setBlockFree", i, <<>>), r)

NextDisk ==
    \/ AllocateBlock
    \/ WriteBlock
    \/ ReadBlock
    \/ DeleteBlock
    \/ SetBlockFree

SpecDisk == Init /\ [][NextDisk]_vars

-----------------------------------------------------------------------------
\* File contents: files are created, written (overwrite or append) and read.
\* No call of this specification deletes anything, so a block is released
\* only by writeFile, with setBlockFree.

MaxContentOps == 4

ContentPaths == {P_a, P_b}

\* BLOCK_SIZE + 1 bytes, none of them NUL
Secret == [i \in 1..(BLOCK_SIZE + 1) |-> 2]

ContentDatas == {<<>>, <<1>>, Secret}

ContentLive == ~crashed /\ nOps < MaxContentOps

CtCreateFile ==
    /\ ContentLive
    /\ \E p \in ContentPaths, n \in NsSizes :
          \E r \in {createFile(Cur, p, n)} :
             Step(Call("createFile", p, <<>>, n, <<>>, FALSE), r)

CtWriteFile ==
    /\ ContentLive
    /\ \E p \in ContentPaths, d \in ContentDatas, append \in BOOLEAN :
          \E r \in {writeFile(Cur, p, d, append)} :
             Step(Call("writeFile", p, <<>>, 0, d, append), r)

CtReadFile ==
    /\ ContentLive
    /\ \E p \in ContentPaths :
          \E r \in {readFile(Cur, p)} :
             Step([Call("readFile", p, <<>>, 0, <<>>, FALSE) EXCEPT !.out = r.data],
                  [s |-> Cur, status |-> r.status])

NextContent ==
    \/ CtCreateFile
    \/ CtWriteFile
    \/ CtReadFile

SpecContent == Init /\ [][NextContent]_vars

-----------------------------------------------------------------------------
\* Path resolution applied to every string of a bounded length.

PathLen == 5

PathChars == {"a", ".", "/"}

PathInputs == UNION {[1..n -> PathChars] : n \in 0..PathLen}

ResolvePath ==
    /\ Live
    /\ \E p \in PathInputs :
          Step([Call("resolvePath", p, <<>>, 0, <<>>, FALSE)
                   EXCEPT !.out = resolvePath(p)], Ok(Cur))

NextPath == ResolvePath

SpecPath == Init /\ [][NextPath]_vars

-----------------------------------------------------------------------------
\* The namespace calls that add or replace table keys, renamePath being given
\* new names that are not a single component.

KeyPaths == {Root, P_a, P_ab, P_b}

KeyNames == {<<>>, <<"b">>, <<"b", "/">>, <<".">>}

KeyCreateFile ==
    /\ Live
    /\ \E p \in KeyPaths, n \in NsSizes :
          \E r \in {createFile(Cur, p, n)} :
             Step(Call("createFile", p, <<>>, n, <<>>, FALSE), r)

KeyCreateDirectory ==
    /\ Live
    /\ \E p \in KeyPaths :
          \E r \in {createDirectory(Cur, p)} :
             Step(Call("createDirectory", p, <<>>, 0, <<>>, FALSE), r)

KeyWriteFile ==
    /\ Live
    /\ \E p \in KeyPaths, append \in BOOLEAN :
          \E r \in {writeFile(Cur, p, <<1>>, append)} :
             Step(Call("writeFile", p, <<>>, 0, <<1>>, append), r)

KeyMoveFile ==
    /\ Live
    /\ \E p \in KeyPaths, q \in KeyPaths :
          \E r \in {moveFile(Cur, p, q)} :
             Step(Call("moveFile", p, q, 0, <<>>, FALSE), r)

KeyMoveDirectory ==
    /\ Live
    /\ \E p \in KeyPaths, q \in KeyPaths :
          \E r \in moveDirectory(Cur, p, q) :
             Step(Call("moveDirectory", p, q, 0, <<>>, FALSE), r)

KeyRenamePath ==
    /\ Live
    /\ \E p \in KeyPaths, newName \in KeyNames :
          \E r \in renamePath(Cur, p, newName) :
             Step(Call("renamePath", p, newName, 0, <<>>, FALSE), r)

NextKeys ==
    \/ InitializeFileSystem
    \/ KeyCreateFile
    \/ KeyCreateDirectory
    \/ KeyWriteFile
    \/ KeyMoveFile
    \/ KeyMoveDirectory
    \/ KeyRenamePath

SpecKeys == Init /\ [][NextKeys]_vars

-----------------------------------------------------------------------------
\* Files created with every size a size_t holds.

WordSizes == 0..(SizeMod - 1)

SizeCreateFile ==
    /\ Live
    /\ \E p \in ContentPaths, n \in WordSizes :
          \E r \in {createFile(Cur, p, n)} :
             Step(Call("createFile", p, <<>>, n, <<>>, FALSE), r)

SizeDeleteFile ==
    /\ Live
    /\ \E p \in ContentPaths :
          \E r \in {deleteFile(Cur, p)} :
             Step(Call("deleteFile", p, <<>>, 0, <<>>, FALSE), r)

NextSize ==
    \/ SizeCreateFile
    \/ SizeDeleteFile

SpecSize == Init /\ [][NextSize]_vars

-----------------------------------------------------------------------------
\* The command-line interface: main constructs the managers (no
\* filesystem.dat present) and calls startCLI, which reads one line per
\* iteration.  A line is given as its whitespace-separated words, the first
\* word as a string and the others as character sequences.

MaxLines == 2

\* the bound of the create_file size test
CliSizeLimit == 1048576

\* std::getline(std::cin, commandLine): on a stream that is no longer good
\* the sentry fails and the string is left as it was; at the end of the input
\* the string is erased and the stream fails; a last line without a newline
\* is read and leaves the stream at end-of-file.
getline(stream, str) ==
    IF ~stream.good THEN [stream |-> stream, str |-> str]
    ELSE IF stream.lines = <<>>
         THEN [stream |-> [stream EXCEPT !.good = FALSE], str |-> <<>>]
         ELSE [stream |-> [stream EXCEPT !.lines = Tail(@),
                                         !.good = Len(stream.lines) > 1 \/ stream.newline],
               str |-> Head(stream.lines)]

\* iss >> word, for the k-th word of the line: empty when the line has none
Word(line, k) == IF k <= Len(line) THEN line[k] ELSE <<>>

\* iss >> command
Command(line) == IF line = <<>> THEN "" ELSE line[1]

Digits == {"0", "1", "2", "3", "4", "5", "6", "7", "8", "9"}

DigitValue(c) ==
    CASE c = "0" -> 0 [] c = "1" -> 1 [] c = "2" -> 2 [] c = "3" -> 3
      [] c = "4" -> 4 [] c = "5" -> 5 [] c = "6" -> 6 [] c = "7" -> 7
      [] c = "8" -> 8 [] c = "9" -> 9

isSizeNumber(str) ==
    /\ str # <<>>
    /\ \A i \in 1..Len(str) : str[i] \in Digits

\* the decimal value of a digit string
RECURSIVE decimal(_, _)
decimal(str, acc) ==
    IF str = <<>> THEN acc
    ELSE decimal(Tail(str), 10 * acc + DigitValue(Head(str)))

\* size = std::stoul(sizeStr) inside try/catch: when the value does not fit
\* the word stoul throws, the catch block prints a message and execution
\* goes on with size never assigned: any value.
stoul(sizeStr) ==
    IF decimal(sizeStr, 0) < SizeMod THEN {decimal(sizeStr, 0)}
    ELSE 0..(SizeMod - 1)

\* the rest of the line after the path: the words separated by one blank
RECURSIVE joinWords(_)
joinWords(words) ==
    IF words = <<>> THEN <<>>
    ELSE IF Len(words) = 1 THEN Head(words)
    ELSE Head(words) \o <<" ">> \o joinWords(Tail(words))

\* data.erase(0, data.find_first_not_of(" \t"));
\* data.erase(data.find_last_not_of(" \t") + 1)
RECURSIVE trimBlanks(_)
trimBlanks(data) ==
    IF data = <<>> THEN data
    ELSE IF Head(data) = " " THEN trimBlanks(Tail(data))
    ELSE IF data[Len(data)] = " " THEN trimBlanks(SubSeq(data, 1, Len(data) - 1))
    ELSE data

\* std::regex_search with "([^"]*)": the text between the first quote that
\* has a later quote and that later quote; the data as it is without a match
extractQuoted(data) ==
    LET quotes == {i \in 1..Len(data) : data[i] = "\""} IN
    IF Cardinality(quotes) < 2 THEN data
    ELSE LET open == Min(quotes)
             close == Min(quotes \ {open})
         IN  SubSeq(data, open + 1, close - 1)

\* the append flag: the text after the last blank, when it is true or false
extractAppend(data) ==
    LET spacePos == findLastOf(data, " ")
        appendStr == SubSeq(data, spacePos + 1, Len(data))
    IN  IF spacePos # 0 /\ appendStr \in {<<"t", "r", "u", "e">>,
                                          <<"f", "a", "l", "s", "e">>}
        THEN [data |-> SubSeq(data, 1, spacePos - 1),
              append |-> appendStr = <<"t", "r", "u", "e">>]
        ELSE [data |-> data, append |-> TRUE]

\* the characters of the data words and their byte values
CliChars == <<"x", " ", "\"", "t", "r", "u", "e", "f", "a", "l", "s">>

CharCode(c) == CHOOSE i \in 1..Len(CliChars) : CliChars[i] = c

Bytes(data) == [i \in 1..Len(data) |-> CharCode(data[i])]

\* the arguments the write_file branch passes to writeFile
parseWrite(line) ==
    LET raw == trimBlanks(joinWords(SubSeq(line, 3, Len(line))))
        flagged == extractAppend(extractQuoted(raw))
    IN  [path |-> Word(line, 2), data |-> Bytes(trimBlanks(flagged.data)),
         append |-> flagged.append]

\* the command lines of the inputs
W_a == <<"/", "a">>
W_b == <<"/", "b">>
W_x == <<"x">>
W_true == <<"t", "r", "u", "e">>
W_false == <<"f", "a", "l", "s", "e">>

CliLines ==
    { <<"help">>, <<"exit">>, <<"frobnicate">>,
      <<"create_file", W_a, <<"1">>>>, <<"create_file", W_a>>,
      <<"create_file", W_a, <<"-", "1">>>>, <<"create_file", W_a, <<"1", "x">>>>,
      <<"create_file", W_a, <<"0">>>>, <<"create_file", W_a, <<"9", "9">>>>,
      <<"create_dir", W_b>>, <<"create_dir", <<"/">>>>,
      <<"delete_file", W_a>>,
      <<"delete_dir", W_b>>, <<"delete_dir", W_b, W_true>>,
      <<"write_file", W_a, W_x>>, <<"write_file", W_a, W_x, W_false>>,
      <<"write_file", W_a, <<"\"", "x", "\"">>, W_false>>,
      <<"read_file", W_a>>,
      <<"list_dir", W_b>>,
      <<"move_file", W_a, W_b>> }

CliInputs == UNION {[1..n -> CliLines] : n \in 0..MaxLines}

\* main up to the call of startCLI, standard input holding one of inputs
InitCliWith(inputs) ==
    /\ fileTable = <<>>
    /\ bitmap = [i \in 0..(numBlocks - 1) |-> TRUE]
    /\ disk = [i \in 0..(numBlocks - 1) |-> ZeroBlock]
    /\ crashed = FALSE
    /\ last = Call("none", <<>>, <<>>, 0, <<>>, FALSE)
    /\ pre = State(<<>>, [i \in 0..(numBlocks - 1) |-> TRUE],
                   [i \in 0..(numBlocks - 1) |-> ZeroBlock])
    /\ nOps = 0
    /\ \E lines \in inputs, newline \in BOOLEAN : cin = Stdin(lines, newline)
    /\ commandLine = <<>>
    /\ pc = "getline"

InitCli == InitCliWith(CliInputs)

\* the loop is at the dispatch of the command word
AtCommand(command) ==
    /\ ~crashed
    /\ pc = "dispatch"
    /\ Command(commandLine) = command

\* one branch of the dispatch has run: the call it made, if any, has returned
\* or thrown into the catch block, or has killed the process
CliStep(call, r, next) ==
    /\ pre' = Cur
    /\ last' = [call EXCEPT !.status = r.status]
    /\ IF r.status = "crash"
       THEN /\ crashed' = TRUE
            /\ UNCHANGED <<fileTable, bitmap, disk>>
       ELSE /\ crashed' = FALSE
            /\ fileTable' = r.s.fileTable
            /\ bitmap' = r.s.bitmap
            /\ disk' = r.s.disk
    /\ pc' = next
    /\ UNCHANGED <<nOps, cin, commandLine>>

\* a branch that calls nothing
NoCall(op) == Call(op, <<>>, <<>>, 0, <<>>, FALSE)

CliGetLine ==
    /\ ~crashed
    /\ pc = "getline"
    /\ cin' = getline(cin, commandLine).stream
    /\ commandLine' = getline(cin, commandLine).str
    /\ pc' = "dispatch"
    /\ UNCHANGED <<fileTable, bitmap, disk, crashed, last, pre, nOps>>

CliHelp ==
    /\ AtCommand("help")
    /\ CliStep(NoCall("help"), Ok(Cur), "getline")

CliCreateFile ==
    /\ AtCommand("create_file")
    /\ LET path == Word(commandLine, 2)
           sizeStr == Word(commandLine, 3)
       IN  IF \/ path = <<>>
              \/ sizeStr = <<>>
              \/ sizeStr[1] = "-"
              \/ ~isSizeNumber(sizeStr)
           THEN CliStep(NoCall("usage"), Ok(Cur), "getline")
           ELSE \E size \in stoul(sizeStr) :
                   IF size >= CliSizeLimit \/ size <= 0
                   THEN CliStep(NoCall("usage"), Ok(Cur), "getline")
                   ELSE \E r \in {createFile(Cur, path, size)} :
                           CliStep(Call("createFile", path, <<>>, size, <<>>, FALSE),
                                   r, "getline")

CliCreateDir ==
    /\ AtCommand("create_dir")
    /\ \E r \in {createDirectory(Cur, Word(commandLine, 2))} :
          CliStep(Call("createDirectory", Word(commandLine, 2), <<>>, 0, <<>>, FALSE),
                  r, "getline")

CliDeleteFile ==
    /\ AtCommand("delete_file")
    /\ \E r \in {deleteFile(Cur, Word(commandLine, 2))} :
          CliStep(Call("deleteFile", Word(commandLine, 2), <<>>, 0, <<>>, FALSE),
                  r, "getline")

CliDeleteDir ==
    /\ AtCommand("delete_dir")
    /\ LET recursive == Word(commandLine, 3) = W_true IN
       \E r \in deleteDirectory(Cur, Word(commandLine, 2), recursive) :
          CliStep(Call("deleteDirectory", Word(commandLine, 2), <<>>, 0, <<>>, recursive),
                  r, "getline")

CliWriteFile ==
    /\ AtCommand("write_file")
    /\ \E w \in {parseWrite(commandLine)} :
          \E r \in {writeFile(Cur, w.path, w.data, w.append)} :
             CliStep(Call("writeFile", w.path, <<>>, 0, w.data, w.append), r, "getline")

CliReadFile ==
    /\ AtCommand("read_file")
    /\ \E r \in {readFile(Cur, Word(commandLine, 2))} :
          CliStep([Call("readFile", Word(commandLine, 2), <<>>, 0, <<>>, FALSE)
                      EXCEPT !.out = r.data],
                  [s |-> Cur, status |-> r.status], "getline")

CliListDir ==
    /\ AtCommand("list_dir")
    /\ \E r \in {listDirectory(Cur, Word(commandLine, 2))} :
          CliStep([Call("listDirectory", Word(commandLine, 2), <<>>, 0, <<>>, FALSE)
                      EXCEPT !.out = r.names],
                  [s |-> Cur, status |-> r.status], "getline")

CliExit ==
    /\ AtCommand("exit")
    /\ CliStep(NoCall("exit"), Ok(Cur), "returned")

CliUnknown ==
    /\ ~crashed
    /\ pc = "dispatch"
    /\ Command(commandLine) \notin
          {"help", "create_file", "create_dir", "delete_file", "delete_dir",
           "write_file", "read_file", "list_dir", "exit"}
    /\ CliStep(NoCall("unknown"), Ok(Cur), "getline")

NextCli ==
    \/ CliGetLine
    \/ CliHelp
    \/ CliCreateFile
    \/ CliCreateDir
    \/ CliDeleteFile
    \/ CliDeleteDir
    \/ CliWriteFile
    \/ CliReadFile
    \/ CliListDir
    \/ CliExit
    \/ CliUnknown

SpecCli == InitCli /\ [][NextCli]_vars

\* The process keeps running: a statement of the loop that can be executed
\* is executed.  The inputs are those of at most MaxFairLines lines.
MaxFairLines == 1

FairInputs == UNION {[1..n -> CliLines] : n \in 0..MaxFairLines}

InitCliFair == InitCliWith(FairInputs)

SpecCliFair == InitCliFair /\ [][NextCli]_vars /\ WF_vars(NextCli)

-----------------------------------------------------------------------------
\* Properties

Range(f) == {f[i] : i \in DOMAIN f}

Occupied == {i \in 0..(numBlocks - 1) : ~bitmap[i]}

\* the keys of table that lie inside directory dir (dir followed by a separator)
Descendants(table, dir) ==
    {k \in DOMAIN table : k # dir /\
        startsWith(k, IF dir = Root THEN Root ELSE dir \o <<"/">>)}

\* C1: every block index of every entry's block list is occupied in the
\* bitmap, no index occurs in the lists of two entries and none occurs twice
\* in one list.
C1_BlockOwnership ==
    /\ \A k \in DOMAIN fileTable :
          \A i \in DOMAIN fileTable[k].blockIndices :
             /\ fileTable[k].blockIndices[i] \in Occupied
             /\ \A j \in DOMAIN fileTable[k].blockIndices :
                   fileTable[k].blockIndices[j] = fileTable[k].blockIndices[i] => j = i
    /\ \A k1, k2 \in DOMAIN fileTable :
          k1 # k2 =>
            Range(fileTable[k1].blockIndices) \cap Range(fileTable[k2].blockIndices) = {}

\* C2: every block the bitmap marks occupied is in the block list of some
\* entry of the table.
C2_NoBlockLeak ==
    \A i \in Occupied :
        \E k \in DOMAIN fileTable : i \in Range(fileTable[k].blockIndices)

\* C3: after a successful overwriting writeFile(p, data, false), readFile(p)
\* returns exactly data and the entry's size is len(data).
C3_OverwriteReadBack ==
    (last.op = "writeFile" /\ last.status = "ok" /\ ~last.flag) =>
        /\ readFile(Cur, last.path) = [status |-> "ok", data |-> last.data]
        /\ findEntry(fileTable, last.path).size = Len(last.data)

\* C4: after a successful appending writeFile(p, data, true), readFile(p)
\* returns what it returned before the call followed by data, and the size
\* has grown by len(data).
C4_AppendReadBack ==
    (last.op = "writeFile" /\ last.status = "ok" /\ last.flag) =>
        /\ readFile(Cur, last.path) =
             [status |-> "ok", data |-> readFile(pre, last.path).data \o last.data]
        /\ findEntry(fileTable, last.path).size =
             findEntry(pre.fileTable, last.path).size + Len(last.data)

\* C5: a createFile that fails after the name validation leaves the bitmap
\* and the table as they were before the call.
C5_CreateFileRollback ==
    (last.op = "createFile" /\ last.status \notin {"ok", "crash", "InvalidName"}) =>
        /\ bitmap = pre.bitmap
        /\ fileTable = pre.fileTable

\* C6: when writeFile fails because a further block cannot be allocated, the
\* blocks it had newly allocated are free again (the bitmap is as before the
\* call), and the entry at p and the result of readFile(p) are as before.
C6_WriteFileRollback ==
    (last.op = "writeFile" /\ last.status = "NoFreeBlocks") =>
        /\ bitmap = pre.bitmap
        /\ findEntry(fileTable, last.path) = findEntry(pre.fileTable, last.path)
        /\ readFile(Cur, last.path) = readFile(pre, last.path)

\* a writeFile that ran out of blocks after it had taken at least one new block
C6_Witness ==
    /\ last.op = "writeFile"
    /\ last.status = "NoFreeBlocks"
    /\ \E i \in 0..(numBlocks - 1) : pre.bitmap[i]

\* C7: in every reachable state the table has an entry at "/" of kind
\* Directory.
C7_RootAlwaysExists ==
    /\ Root \in DOMAIN fileTable
    /\ fileTable[Root].type = "Directory"

\* C8: deleteDirectory("/", recursive) fails for both values of recursive and
\* leaves the table and the bitmap unchanged.
C8_RootDeleteRejected ==
    (last.op = "deleteDirectory" /\ last.path = Root) =>
        /\ last.status # "ok"
        /\ fileTable = pre.fileTable
        /\ bitmap = pre.bitmap

\* C9: a successful deleteFile(p) leaves no entry at resolvePath(p) and every
\* block of the deleted entry free.
C9_DeleteFileRemoves ==
    (last.op = "deleteFile" /\ last.status = "ok") =>
        /\ findEntry(fileTable, last.path) = NoEntry
        /\ \A b \in Range(findEntry(pre.fileTable, last.path).blockIndices) : bitmap[b]

\* C10: deleteDirectory(p, true) on an existing directory completes without
\* error; afterwards there is no entry at resolvePath(p) nor at any descendant
\* path, and every block a descendant file owned is free.  (A run in which the
\* process dies is left out of the statement.)
C10_RecursiveDelete ==
    (/\ last.op = "deleteDirectory" /\ last.flag /\ last.status # "crash"
     /\ findEntry(pre.fileTable, last.path).type = "Directory") =>
        LET dir == resolvePath(last.path) IN
        /\ last.status = "ok"
        /\ dir \notin DOMAIN fileTable
        /\ Descendants(fileTable, dir) = {}
        /\ \A k \in Descendants(pre.fileTable, dir) :
              \A b \in Range(pre.fileTable[k].blockIndices) : bitmap[b]

\* C11: deleteDirectory(p, false) on a directory that has a strict descendant
\* fails with DirectoryNotEmpty and leaves the table and the bitmap as they
\* were.
C11_NonRecursiveDeleteRejected ==
    (/\ last.op = "deleteDirectory" /\ ~last.flag
     /\ findEntry(pre.fileTable, last.path).type = "Directory"
     /\ Descendants(pre.fileTable, resolvePath(last.path)) # {}) =>
        /\ last.status = "DirectoryNotEmpty"
        /\ fileTable = pre.fileTable
        /\ bitmap = pre.bitmap

\* the keys of table that have dir as a string prefix without lying inside dir
PrefixSiblings(table, dir) ==
    {k \in DOMAIN table : k # dir /\ startsWith(k, dir)} \ Descendants(table, dir)

\* C12: an entry whose path merely has the directory's path as a string prefix
\* (/ab beside /a) is not inside the directory: it does not make
\* deleteDirectory(D, false) fail with DirectoryNotEmpty, and
\* deleteDirectory(D, true) leaves it in the table.
C12_PrefixSiblingUntouched ==
    LET dir == resolvePath(last.path) IN
    (/\ last.op = "deleteDirectory" /\ last.status # "crash"
     /\ findEntry(pre.fileTable, last.path).type = "Directory"
     /\ PrefixSiblings(pre.fileTable, dir) # {}) =>
        /\ (~last.flag /\ Descendants(pre.fileTable, dir) = {}) =>
              last.status # "DirectoryNotEmpty"
        /\ \A k \in PrefixSiblings(pre.fileTable, dir) :
              k \in DOMAIN fileTable /\ fileTable[k] = pre.fileTable[k]

\* the parent directory of a canonical path with at least one component
ParentOf(p) ==
    LET slash == findLastOf(p, "/") IN
    IF slash <= 1 THEN Root ELSE SubSeq(p, 1, slash - 1)

\* the last call is moveFile(src, dst) with an existing, readable file at src
\* and a different, free path at dst
MoveFileCase ==
    /\ last.op = "moveFile"
    /\ findEntry(pre.fileTable, last.path).type = "File"
    /\ readFile(pre, last.path).status = "ok"
    /\ tokenizePath(resolvePath(last.path2)) # <<>>
    /\ resolvePath(last.path2) # resolvePath(last.path)
    /\ resolvePath(last.path2) \notin DOMAIN pre.fileTable

\* C13: moveFile(src, dst) from an existing file to a free path whose parent
\* directory exists (the root directory included) succeeds; afterwards there
\* is no entry at src, the entry at dst is a File of the same size, and
\* readFile(dst) returns what readFile(src) returned before.
C13_MoveFileMoves ==
    LET src == resolvePath(last.path)
        dst == resolvePath(last.path2)
    IN
    (/\ MoveFileCase
     /\ getEntry(pre.fileTable, ParentOf(dst)).type = "Directory") =>
        /\ last.status = "ok"
        /\ src \notin DOMAIN fileTable
        /\ getEntry(fileTable, dst).type = "File"
        /\ getEntry(fileTable, dst).size = getEntry(pre.fileTable, src).size
        /\ readFile(Cur, dst) = readFile(pre, src)

Inside(p, dir) ==
    p = dir \/ startsWith(p, IF dir = Root THEN Root ELSE dir \o <<"/">>)

\* C15: moveDirectory(src, dst) from an existing directory to a free path
\* outside src (whose parent directory exists) completes without error;
\* afterwards there is no entry at src, the entry at dst is a Directory, and
\* every entry that was inside src is found under dst with the same kind and,
\* for a file, the same content.
C15_MoveDirectoryMoves ==
    LET src == resolvePath(last.path)
        dst == resolvePath(last.path2)
        moved(k) == dst \o SubSeq(k, Len(src) + 1, Len(k))
    IN
    (/\ last.op = "moveDirectory" /\ last.status # "crash"
     /\ getEntry(pre.fileTable, src).type = "Directory"
     /\ tokenizePath(dst) # <<>>
     /\ dst \notin DOMAIN pre.fileTable
     /\ ~Inside(dst, src)
     /\ getEntry(pre.fileTable, ParentOf(dst)).type = "Directory") =>
        /\ last.status = "ok"
        /\ src \notin DOMAIN fileTable
        /\ getEntry(fileTable, dst).type = "Directory"
        /\ \A k \in Descendants(pre.fileTable, src) :
              /\ getEntry(fileTable, moved(k)).type = pre.fileTable[k].type
              /\ pre.fileTable[k].type = "File" =>
                    readFile(Cur, moved(k)) = readFile(pre, k)

\* C16: moveDirectory(src, dst) of an existing directory is rejected as a move
\* into itself, with the table and the bitmap unchanged, whenever dst resolves
\* to src or to a path inside src, and is not rejected on these grounds when
\* dst resolves to a path outside src.
C16_MoveIntoItself ==
    LET src == resolvePath(last.path)
        dst == resolvePath(last.path2)
    IN
    (/\ last.op = "moveDirectory" /\ last.status # "crash"
     /\ getEntry(pre.fileTable, src).type = "Directory") =>
        /\ Inside(dst, src) =>
              /\ last.status \in {"SamePath", "IntoItself"}
              /\ fileTable = pre.fileTable
              /\ bitmap = pre.bitmap
        /\ ~Inside(dst, src) => last.status \notin {"SamePath", "IntoItself"}

\* C17: saving a reachable state and loading the snapshot into a freshly
\* constructed manager and block store gives the same entries (path, kind,
\* size, block list), the same bitmap, and the same listDirectory, readFile
\* and getMetadata results for every path of the saved state.
C17_SaveLoadRoundTrip ==
    (last.op = "load") =>
        /\ last.status = "ok"
        /\ fileTable = pre.fileTable
        /\ bitmap = pre.bitmap
        /\ \A k \in DOMAIN pre.fileTable :
              /\ findEntry(fileTable, k) = findEntry(pre.fileTable, k)
              /\ readFile(Cur, k) = readFile(pre, k)
              /\ listDirectory(Cur, k) = listDirectory(pre, k)

\* C18: after the snapshot of a state has been loaded into a fresh manager
\* the table has an entry at "/" of kind Directory, whether or not the saved
\* state had one, and load has not failed.
C18_LoadEnsuresRoot ==
    (last.op = "load") =>
        /\ last.status = "ok"
        /\ getEntry(fileTable, Root).type = "Directory"

\* a snapshot whose entry at "/" is a File has been loaded
C18_Witness ==
    /\ last.op = "load"
    /\ last.status = "ok"
    /\ getEntry(pre.fileTable, Root).type = "File"

\* ceil(n / d)
CeilDiv(n, d) == IF n % d = 0 THEN n \div d ELSE (n \div d) + 1

\* C19: every File entry of the table has ceil(size / BLOCK_SIZE) block
\* indices; every Directory entry has size 0 and an empty block list.
C19_BlockCount ==
    \A k \in DOMAIN fileTable :
        /\ fileTable[k].type = "File" =>
              Len(fileTable[k].blockIndices) = CeilDiv(fileTable[k].size, BLOCK_SIZE)
        /\ fileTable[k].type = "Directory" =>
              fileTable[k].size = 0 /\ fileTable[k].blockIndices = <<>>

\* a writeFile has grown a file to a size that is not a multiple of BLOCK_SIZE
\* and spans two blocks, beside a directory entry
C19_Witness ==
    /\ last.op = "writeFile"
    /\ last.status = "ok"
    /\ findEntry(fileTable, last.path).size = BLOCK_SIZE + 1
    /\ Len(findEntry(pre.fileTable, last.path).blockIndices) < 2
    /\ \E k \in DOMAIN fileTable : fileTable[k].type = "Directory"

\* the final component of a canonical path
LastComponent(p) == SubSeq(p, findLastOf(p, "/") + 1, Len(p))

\* the names of the entries of table whose parent directory is dir
ChildNames(table, dir) ==
    {LastComponent(k) : k \in {d \in Descendants(table, dir) : ParentOf(d) = dir}}

\* C20: listDirectory(D) on an existing directory returns exactly the
\* final-component names of the immediate children of D.
C20_ListDirectoryChildren ==
    (/\ last.op = "listDirectory" /\ last.status # "crash"
     /\ findEntry(pre.fileTable, last.path).type = "Directory") =>
        /\ last.status = "ok"
        /\ last.out = ChildNames(pre.fileTable, resolvePath(last.path))

\* the canonical path with the given components
CanonicalOf(tokens) ==
    IF tokens = <<>> THEN Root
    ELSE LET joined == <<"/">> \o joinParts(tokens)
         IN  SubSeq(joined, 1, Len(joined) - 1)

\* the proper ancestors, below the root, of a canonical path
AncestorsOf(p) ==
    LET tokens == tokenizePath(p) IN
    {CanonicalOf(SubSeq(tokens, 1, k)) : k \in 1..(Len(tokens) - 1)}

\* C21: after a successful createFile(p, s) or createDirectory(p) every proper
\* ancestor of resolvePath(p) below the root is in the table as a Directory;
\* when some ancestor is a File the call fails with PathConflict, adds no
\* entry and allocates no block.
C21_ParentsEnsured ==
    LET ancestors == AncestorsOf(resolvePath(last.path)) IN
    (last.op \in {"createFile", "createDirectory"} /\ isValidName(last.path)) =>
        /\ last.status = "ok" =>
              \A a \in ancestors : getEntry(fileTable, a).type = "Directory"
        /\ (\E a \in ancestors : getEntry(pre.fileTable, a).type = "File") =>
              /\ last.status = "PathConflict"
              /\ fileTable = pre.fileTable
              /\ bitmap = pre.bitmap

\* C22: createFile(p, s) and createDirectory(p) fail with AlreadyExists when
\* an entry of either kind is at resolvePath(p), and leave the table and the
\* bitmap as they were.
C22_CreateExistingRejected ==
    (/\ last.op \in {"createFile", "createDirectory"}
     /\ isValidName(last.path)
     /\ resolvePath(last.path) \in DOMAIN pre.fileTable) =>
        /\ last.status = "AlreadyExists"
        /\ fileTable = pre.fileTable
        /\ bitmap = pre.bitmap

\* C23: createFile and createDirectory with an empty path, or a path holding
\* a character outside [A-Za-z0-9_./-], fail with InvalidName; no directory
\* has been created and no block allocated.
C23_InvalidNameRejected ==
    (/\ last.op \in {"createFile", "createDirectory"}
     /\ (last.path = <<>> \/ \E i \in 1..Len(last.path) : last.path[i] \notin ValidChars)) =>
        /\ last.status = "InvalidName"
        /\ fileTable = pre.fileTable
        /\ bitmap = pre.bitmap

\* a creation under the missing directory /a, with a refused character in the
\* last component, has been rejected
C23_Witness ==
    /\ last.op \in {"createFile", "createDirectory"}
    /\ last.path = P_aDollar
    /\ P_a \notin DOMAIN pre.fileTable
    /\ last.status = "InvalidName"

\* C24: allocateBlock returns the lowest index that was free before the call
\* and marks exactly that index occupied; it fails, with the bitmap unchanged,
\* exactly when no block was free.
C24_AllocateLowestFree ==
    last.op = "allocateBlock" =>
        LET free == {i \in 0..(numBlocks - 1) : pre.bitmap[i]} IN
        /\ last.status \in {"ok", "NoFreeBlocks"}
        /\ (last.status = "NoFreeBlocks") <=> (free = {})
        /\ last.status = "ok" =>
              /\ last.blockIndex \in free
              /\ \A j \in free : last.blockIndex <= j
              /\ bitmap = [pre.bitmap EXCEPT ![last.blockIndex] = FALSE]
        /\ last.status = "NoFreeBlocks" => bitmap = pre.bitmap

\* block 1 has been allocated between the occupied block 0 and a free block 2
C24_Witness ==
    /\ last.op = "allocateBlock"
    /\ last.status = "ok"
    /\ last.blockIndex = 1
    /\ ~pre.bitmap[0]
    /\ pre.bitmap[2]

\* the store was full and the allocation has been refused
C24_Exhausted ==
    /\ last.op = "allocateBlock"
    /\ last.status = "NoFreeBlocks"

\* C25: writeBlock(i, d), for a valid index i and a non-empty d of at most
\* BLOCK_SIZE bytes ending in a non-NUL byte, succeeds; readBlock(i) then
\* returns exactly d, whatever block i held before and whether or not it was
\* free; every other block keeps its bytes and its bitmap bit.
C25_WriteThenRead ==
    (/\ last.op = "writeBlock"
     /\ last.blockIndex < numBlocks
     /\ Len(last.data) \in 1..BLOCK_SIZE
     /\ last.data[Len(last.data)] # NUL) =>
        /\ last.status = "ok"
        /\ readBlock(Cur, last.blockIndex) = [status |-> "ok", data |-> last.data]
        /\ \A j \in 0..(numBlocks - 1) :
              j # last.blockIndex =>
                 /\ disk[j] = pre.disk[j]
                 /\ bitmap[j] = pre.bitmap[j]

\* a one-byte payload has been written over a block that held a full block of
\* other bytes, while another block holds data
C25_Witness ==
    /\ last.op = "writeBlock"
    /\ last.status = "ok"
    /\ last.blockIndex < numBlocks
    /\ last.data = <<1>>
    /\ pre.disk[last.blockIndex] = FullBlock
    /\ \E j \in 0..(numBlocks - 1) : j # last.blockIndex /\ disk[j] # ZeroBlock

\* C26: after a successful deleteBlock(i) block i is free and its bytes are
\* zero; readBlock(i) then fails with BlockFree and deleteBlock(i) with
\* BlockAlreadyFree; a readBlock or deleteBlock made on a free block fails so
\* and leaves the bitmap unchanged.
C26_DeleteBlockFrees ==
    /\ (last.op = "deleteBlock" /\ last.status = "ok") =>
          /\ bitmap[last.blockIndex]
          /\ disk[last.blockIndex] = ZeroBlock
          /\ readBlock(Cur, last.blockIndex).status = "BlockFree"
          /\ deleteBlock(Cur, last.blockIndex) = Err(Cur, "BlockAlreadyFree")
    /\ (/\ last.op \in {"readBlock", "deleteBlock"}
        /\ last.blockIndex < numBlocks
        /\ pre.bitmap[last.blockIndex]) =>
          /\ last.status = IF last.op = "readBlock" THEN "BlockFree"
                                                    ELSE "BlockAlreadyFree"
          /\ bitmap = pre.bitmap

\* a block that held data has been deleted
C26_Witness ==
    /\ last.op = "deleteBlock"
    /\ last.status = "ok"
    /\ pre.disk[last.blockIndex] # ZeroBlock
    /\ ~pre.bitmap[last.blockIndex]

\* C27: writeBlock with more than BLOCK_SIZE bytes fails with PayloadTooLarge;
\* writeBlock (with a payload that fits), readBlock and deleteBlock with an
\* index >= numBlocks fail with OutOfRange; the bitmap and the disk image are
\* unchanged by each such failure.
C27_BlockErrors ==
    /\ (last.op = "writeBlock" /\ Len(last.data) > BLOCK_SIZE) =>
          /\ last.status = "PayloadTooLarge"
          /\ bitmap = pre.bitmap
          /\ disk = pre.disk
    /\ (/\ last.op \in {"writeBlock", "readBlock", "deleteBlock"}
        /\ last.blockIndex >= numBlocks
        /\ Len(last.data) <= BLOCK_SIZE) =>
          /\ last.status = "OutOfRange"
          /\ bitmap = pre.bitmap
          /\ disk = pre.disk

\* an oversized payload has been refused for a block that holds data
C27_Witness ==
    /\ last.op = "writeBlock"
    /\ last.data = TooLong
    /\ last.blockIndex < numBlocks
    /\ last.status = "PayloadTooLarge"
    /\ disk[last.blockIndex] = FullBlock

\* C28: readBlock fails on a block that allocateBlock has just returned and
\* that no writeBlock has targeted since.
C28_UnwrittenBlockRejected ==
    (last.op = "allocateBlock" /\ last.status = "ok") =>
        readBlock(Cur, last.blockIndex).status # "ok"

\* C29: bytes left in a block that writeFile released are never returned by a
\* later read.  A file that has just been created has not been written: a
\* read of it, or of one of its blocks, returns no byte other than NUL.
C29_NoStaleBytes ==
    (last.op = "createFile" /\ last.status = "ok") =>
        LET entry == findEntry(fileTable, last.path)
            r == readFile(Cur, last.path)
        IN  /\ \A k \in 1..Len(r.data) : r.data[k] = NUL
            /\ \A b \in Range(entry.blockIndices) :
                  readBlock(Cur, b).data = <<>>

\* C30: createFile(p, n) with n > 0 followed by one writeFile(p, d, append =
\* true) leaves a file whose readFile returns exactly d.
C30_CreateThenAppend ==
    [][(/\ last.op = "createFile"
        /\ last.status = "ok"
        /\ last.size > 0
        /\ last'.op = "writeFile"
        /\ last'.path = last.path
        /\ last'.flag
        /\ last'.status = "ok") =>
           readFile(State(fileTable', bitmap', disk'), last'.path)
               = [status |-> "ok", data |-> last'.data]]_vars

\* C32: after a successful writeFile the new block list has requiredBlocks
\* entries and starts with the first min(oldCount, requiredBlocks) indices of
\* the old list in their order; the remaining max(0, requiredBlocks -
\* oldCount) indices were free before the call and are occupied now; every
\* old block beyond requiredBlocks is free; the bit of every block in neither
\* list is unchanged.
C32_WriteFileBlocks ==
    (last.op = "writeFile" /\ last.status = "ok") =>
        LET old == findEntry(pre.fileTable, last.path).blockIndices
            entry == findEntry(fileTable, last.path)
            new == entry.blockIndices
            requiredBlocks == CeilDiv(entry.size, BLOCK_SIZE)
            kept == Min({Len(old), requiredBlocks})
        IN  /\ Len(new) = requiredBlocks
            /\ SubSeq(new, 1, kept) = SubSeq(old, 1, kept)
            /\ \A i \in (kept + 1)..Len(new) :
                  /\ pre.bitmap[new[i]]
                  /\ ~bitmap[new[i]]
                  /\ \A j \in 1..Len(new) : new[j] = new[i] => j = i
            /\ \A i \in (requiredBlocks + 1)..Len(old) : bitmap[old[i]]
            /\ \A b \in 0..(numBlocks - 1) :
                  b \notin Range(old) \cup Range(new) => bitmap[b] = pre.bitmap[b]

\* C33: resolvePath is idempotent: resolving the result of a resolution
\* returns that result, for every input string.
C33_ResolveIdempotent ==
    last.op = "resolvePath" => resolvePath(last.out) = last.out

\* a path whose components cancel down to the root has been resolved
C33_Witness ==
    /\ last.op = "resolvePath"
    /\ last.path = <<"/", "a", "/", ".", ".">>
    /\ resolvePath(last.out) = last.out

\* C34: the result of resolvePath begins with exactly one separator, has no
\* empty, "." or ".." component, and ends with a separator only when it is
\* the root; every input denoting the root resolves to "/".
C34_ResolveCanonical ==
    last.op = "resolvePath" =>
        LET r == last.out IN
        /\ r # <<>>
        /\ r[1] = "/"
        /\ \A i \in 1..(Len(r) - 1) : ~(r[i] = "/" /\ r[i + 1] = "/")
        /\ \A i \in 1..Len(tokenizePath(r)) :
              tokenizePath(r)[i] \notin {Dot, DotDot}
        /\ r[Len(r)] = "/" => r = Root
        /\ resolveTokens(tokenizePath(last.path), <<>>) = <<>> => r = Root

\* getMetadata(path) is findEntry(path)
getMetadata(s, path) == findEntry(s.fileTable, path)

\* C35: two paths with the same resolution are answered alike by the read
\* operations: getMetadata returns the same entry, named by the canonical
\* path, readFile returns the same result and listDirectory the same names.
C35_AliasesAgree ==
    \A p, q \in NsPaths :
        resolvePath(p) = resolvePath(q) =>
            /\ getMetadata(Cur, p) = getMetadata(Cur, q)
            /\ getMetadata(Cur, p) # NoEntry =>
                  getMetadata(Cur, p).name = resolvePath(p)
            /\ readFile(Cur, p) = readFile(Cur, q)
            /\ listDirectory(Cur, p) = listDirectory(Cur, q)

\* C36: every key of the table is a canonical path and the name stored in
\* its entry, so getMetadata(key) returns the entry.
C36_KeysCanonical ==
    \A key \in DOMAIN fileTable :
        /\ resolvePath(key) = key
        /\ fileTable[key].name = key
        /\ getMetadata(Cur, key) = fileTable[key]

\* C37: for every entry whose path has two or more components the entry at
\* its parent path exists and is a Directory.
C37_ParentBeforeChild ==
    \A key \in DOMAIN fileTable :
        Len(tokenizePath(key)) >= 2 =>
            /\ ParentOf(key) \in DOMAIN fileTable
            /\ fileTable[ParentOf(key)].type = "Directory"

\* C38: for every size a size_t holds, a createFile that succeeds has given
\* the entry exactly ceil(size / BLOCK_SIZE) blocks.
C38_BlockCountNoWrap ==
    (last.op = "createFile" /\ last.status = "ok") =>
        Len(findEntry(fileTable, last.path).blockIndices)
            = CeilDiv(last.size, BLOCK_SIZE)

\* C39: createFile and createDirectory with a valid name that resolves to no
\* component create no ancestor directory and end with an error or without
\* effect; the process survives the call.
C39_ZeroComponents ==
    (/\ last.op \in {"createFile", "createDirectory"}
     /\ isValidName(last.path)
     /\ tokenizePath(resolvePath(last.path)) = <<>>) =>
        /\ last.status # "crash"
        /\ ~crashed
        /\ fileTable = pre.fileTable

\* C31: the command move_file <src> <dst> makes the CLI call moveFile(src,
\* dst).
C31_MoveFileCommand ==
    (/\ pc = "getline"
     /\ last.op # "none"
     /\ Command(commandLine) = "move_file"
     /\ Len(commandLine) = 3) =>
        /\ last.op = "moveFile"
        /\ last.path = commandLine[2]
        /\ last.path2 = commandLine[3]

\* C40: startCLI returns for every finite input (or the process has ended).
C40_CliTerminates == <>(pc = "returned" \/ crashed)

====
